---- MODULE Spec2Model ----
(***************************************************************************)
(* A model of phylogeny_simulator_and_statistical_verifier.py: the         *)
(* evolutionary simulation (initial population, tournament selection,      *)
(* downsampling, select-and-vary, the generation loop) and the ancestry    *)
(* statistics computed over the history it returns.                        *)
(*                                                                         *)
(* Python lists are sequences.  A case is a pair <<origin_generation,      *)
(* error_value>>, an individual a sequence of cases, a population a        *)
(* sequence of individuals.  Case ids keep Python's 0-based numbering, so  *)
(* case id c of an individual is individual[c + 1].  The module `random`   *)
(* is modelled by nondeterministic choice.  Floating point numbers are     *)
(* modelled by exact fractions <<numerator, denominator>>.                 *)
(***************************************************************************)
EXTENDS Integers, Sequences, FiniteSets

VARIABLES
    pc,                          \* position of the caller
    num_generations,             \* simualte_evolution: argument
    pop_size,                    \* simualte_evolution: argument
    num_cases,                   \* simualte_evolution: argument
    downsample_rate,             \* simualte_evolution: argument (a fraction)
    populations_of_generations,  \* simualte_evolution: the history being built
    samples,                     \* the cases_to_replace handed to select_and_vary, per generation
    target_generation,           \* percent_cases_above_ancestor: argument
    targeted_ancestors,          \* percent_cases_above_ancestor: argument
    result,                      \* percent_cases_above_ancestor: outcome
    population,                  \* argument of a function called on its own
    rate,                        \* downsample: argument (a fraction)
    cases_to_replace,            \* select_and_vary: argument
    candidates,                  \* tournament_selection: positions sampled
    ret                          \* outcome of a function called on its own

vars == <<pc, num_generations, pop_size, num_cases, downsample_rate, populations_of_generations, samples,
          target_generation, targeted_ancestors, result,
          population, rate, cases_to_replace, candidates, ret>>

evoVars == <<num_generations, pop_size, num_cases, downsample_rate, populations_of_generations, samples,
             target_generation, targeted_ancestors, result>>

----------------------------------------------------------------------------
(* Program constants *)

TOURNAMENT_SIZE == 7

MAX_ERROR == 9999

(* Bounds of the model *)

\* populations have TOURNAMENT_SIZE .. TOURNAMENT_SIZE + ExtraPop individuals
ExtraPop == 1

\* individuals have 1 .. MaxCases cases
MaxCases == 2

\* simualte_evolution runs 0 .. MaxGen generations
MaxGen == 2

\* rates are the fractions p / q with 1 <= q <= MaxDen
MaxDen == 2

\* rates range over [-RateSpan, 1 + RateSpan] in the error-handling cases
RateSpan == 1

\* of the random.randint draws behind a population handed to
\* tournament_selection, at most MaxHigh give MAX_ERROR; the others give 0
MaxHigh == 2

\* origin tags of a population that simualte_evolution did not produce
MaxTag == 1

\* the outcome of a call that raises
Raised == "raised"

None == "none"

----------------------------------------------------------------------------
(* Exact fractions standing for Python's floats *)

RECURSIVE GCD(_, _)
GCD(a, b) == IF b = 0 THEN a ELSE GCD(b, a % b)

Abs(x) == IF x < 0 THEN -x ELSE x

\* the fraction n / d (d > 0) in lowest terms
Frac(n, d) == LET g == GCD(Abs(n), d) IN <<n \div g, d \div g>>

FAdd(a, b) == Frac(a[1] * b[2] + b[1] * a[2], a[2] * b[2])

FSub(a, b) == Frac(a[1] * b[2] - b[1] * a[2], a[2] * b[2])

FDivInt(a, n) == Frac(a[1], a[2] * n)

FEq(a, b) == a[1] * b[2] = b[1] * a[2]

RECURSIVE FSum(_)
\* Python's sum() of a list of floats (0 for the empty list)
FSum(s) == IF Len(s) = 0 THEN Frac(0, 1) ELSE FAdd(FSum(Tail(s)), Head(s))

\* Python's int() of rate * n: truncation toward zero
IntOfProduct(r, n) ==
    IF r[1] * n >= 0 THEN (r[1] * n) \div r[2] ELSE -((-(r[1] * n)) \div r[2])

\* floor(rate * n)
FloorOfProduct(r, n) == (r[1] * n) \div r[2]

----------------------------------------------------------------------------
(* Helpers over sequences and sets *)

Range(s) == {s[i] : i \in 1..Len(s)}

SetMax(S) == CHOOSE x \in S : \A y \in S : y <= x

RECURSIVE SumSeq(_)
SumSeq(s) == IF Len(s) = 0 THEN 0 ELSE Head(s) + SumSeq(Tail(s))

RECURSIVE SetToSortedSeq(_)
\* the elements of a set of integers in ascending order
SetToSortedSeq(S) ==
    IF S = {} THEN << >>
    ELSE LET m == CHOOSE x \in S : \A y \in S : x <= y
         IN <<m>> \o SetToSortedSeq(S \ {m})

RECURSIVE Insert(_, _)
Insert(x, s) ==
    IF Len(s) = 0 THEN <<x>>
    ELSE IF x <= Head(s) THEN <<x>> \o s
    ELSE <<Head(s)>> \o Insert(x, Tail(s))

RECURSIVE ListSort(_)
\* list.sort() on a list of integers
ListSort(s) == IF Len(s) = 0 THEN << >> ELSE Insert(Head(s), ListSort(Tail(s)))

\* the lists of k distinct elements of S, in every order: random.sample(S, k)
RECURSIVE OrderedSamples(_, _)
OrderedSamples(S, k) ==
    IF k = 0 THEN {<< >>}
    ELSE UNION {{<<x>> \o t : t \in OrderedSamples(S \ {x}, k - 1)} : x \in S}

RECURSIVE SmallSubsets(_, _)
\* the subsets of S with at most m elements
SmallSubsets(S, m) ==
    IF m = 0 THEN {{}}
    ELSE LET prev == SmallSubsets(S, m - 1)
         IN prev \cup {T \cup {x} : T \in prev, x \in S}

----------------------------------------------------------------------------
(* The inputs the model draws *)

\* the fractions p / q in lowest terms with lo <= p / q <= hi
RatesBetween(lo, hi) ==
    {r \in ((lo * MaxDen)..(hi * MaxDen)) \X (1..MaxDen) :
        lo * r[2] <= r[1] /\ r[1] <= hi * r[2] /\ GCD(Abs(r[1]), r[2]) = 1}

ValidRates == RatesBetween(0, 1)

AnyRates == RatesBetween(-RateSpan, 1 + RateSpan)

PopSizes == TOURNAMENT_SIZE..(TOURNAMENT_SIZE + ExtraPop)

\* select_and_vary and simualte_evolution are run on populations of the
\* smallest size tournament_selection accepts
SmallestPopSizes == {TOURNAMENT_SIZE}

CaseCounts == 1..MaxCases

\* random.randint(0, 9999) for every slot of S: MAX_ERROR on at most `high`
\* slots, 0 elsewhere
ErrorDraws(S, high) == {[s \in S |-> IF s \in H THEN MAX_ERROR ELSE 0] : H \in SmallSubsets(S, high)}

----------------------------------------------------------------------------
(* generate_initial_error_vector, generate_initial_population *)

\* one individual of the first generation, errs[c] being the c-th random draw
generate_initial_error_vector(n, errs) ==
    [c \in 1..n |-> <<0, errs[c]>>]

\* the populations generate_initial_population(p, num_cases) can return, at
\* most `high` of its random draws giving MAX_ERROR
generate_initial_population(p, n, high) ==
    {[i \in 1..p |-> generate_initial_error_vector(n, [c \in 1..n |-> e[<<i, c>>]])] :
        e \in ErrorDraws((1..p) \X (1..n), high)}

----------------------------------------------------------------------------
(* tournament_selection *)

\* the key of max(): the total error of an individual
TotalError(individual) == SumSeq([c \in 1..Len(individual) |-> individual[c][2]])

\* random.sample(population, TOURNAMENT_SIZE): the positions sampled.  The
\* set is empty when the population is too small (random.sample raises).
TournamentCandidates(pop) ==
    {S \in SUBSET (1..Len(pop)) : Cardinality(S) = TOURNAMENT_SIZE}

\* a mutation of TournamentWinners: the candidates of minimal total error
TournamentWinners_min(pop, S) ==
    {w \in S : \A o \in S : TotalError(pop[w]) <= TotalError(pop[o])}

\* max(candidates, key=...) returns the first candidate of maximal key.
\* random.sample gives the candidates in a random order, so each candidate
\* of maximal key can be the first one.
TournamentWinners(pop, S) ==
    {w \in S : \A o \in S : TotalError(pop[o]) <= TotalError(pop[w])}

\* the individuals tournament_selection(population) can return
tournament_selection(pop) ==
    {pop[w] : w \in UNION {TournamentWinners(pop, S) : S \in TournamentCandidates(pop)}}

----------------------------------------------------------------------------
(* downsample *)

\* a mutation of SortedCases: the list is left in the order sampled
SortedCases_unsorted(s) == s

\* cases_to_replace.sort()
SortedCases(s) == ListSort(s)

\* the values downsample(population, rate) can return; random.sample raises
\* ValueError when the sample size is negative or exceeds the list
downsample(pop, r) ==
    LET n == Len(pop[1])
        num_downsampled_cases == IntOfProduct(r, n)
    IN IF num_downsampled_cases < 0 \/ num_downsampled_cases > n
       THEN {Raised}
       ELSE {SortedCases(s) : s \in OrderedSamples(0..(n - 1), num_downsampled_cases)}

----------------------------------------------------------------------------
(* get_new_generation_age, select_and_vary *)

\* a mutation of get_new_generation_age: the age is not incremented by one
get_new_generation_age_plus2(pop) ==
    SetMax({pop[1][c][1] : c \in 1..Len(pop[1])}) + 2

\* a mutation of get_new_generation_age: min() in place of max()
get_new_generation_age_min(pop) ==
    (CHOOSE x \in {pop[1][c][1] : c \in 1..Len(pop[1])} :
        \A y \in {pop[1][c][1] : c \in 1..Len(pop[1])} : x <= y) + 1

get_new_generation_age(pop) ==
    SetMax({pop[1][c][1] : c \in 1..Len(pop[1])}) + 1

\* a mutation of Child: an inherited case keeps its origin but gets a new error
Child_reevaluated(parent, replace, new_generation_age, errs) ==
    [c \in 1..Len(parent) |->
        IF (c - 1) \in Range(replace) THEN <<new_generation_age, errs[c]>>
        ELSE <<parent[c][1], errs[c]>>]

\* the child built from a parent, errs[c] being the random draw for case c
Child(parent, replace, new_generation_age, errs) ==
    [c \in 1..Len(parent) |->
        IF (c - 1) \in Range(replace) THEN <<new_generation_age, errs[c]>> ELSE parent[c]]

\* the slots for which select_and_vary draws a new error
ReplacedSlots(pop, replace) ==
    {s \in (1..Len(pop)) \X (1..Len(pop[1])) : (s[2] - 1) \in Range(replace)}

\* the populations select_and_vary(population, cases_to_replace) can return, at
\* most `high` of its random draws giving MAX_ERROR
select_and_vary(pop, replace, high) ==
    LET winners == tournament_selection(pop)
        new_generation_age == get_new_generation_age(pop)
    IN {[i \in 1..Len(pop) |->
            Child(selected_to_vary[i], replace, new_generation_age,
                  [c \in 1..Len(pop[1]) |-> IF <<i, c>> \in DOMAIN e THEN e[<<i, c>>] ELSE 0])] :
          selected_to_vary \in [1..Len(pop) -> winners],
          e \in ErrorDraws(ReplacedSlots(pop, replace), high)}

----------------------------------------------------------------------------
(* cases_from_ancestor, cases_from_ancestors and the percentages *)

\* range(a, b)
PyRange(a, b) == IF b > a THEN [i \in 1..(b - a) |-> a + i - 1] ELSE << >>

\* whether list[i] is defined for a Python list: negative indices count
\* from the end
PyIndexOK(list, i) == -Len(list) <= i /\ i < Len(list)

PyIndex(list, i) == IF i >= 0 THEN list[i + 1] ELSE list[Len(list) + i + 1]

\* a mutation of cases_from_ancestor: the cases of the ancestor or younger
cases_from_ancestor_geq(individual, ancestor) ==
    LET FromAncestor(case) == case[1] >= ancestor
    IN SelectSeq(individual, FromAncestor)

cases_from_ancestor(individual, ancestor) ==
    LET FromAncestor(case) == case[1] = ancestor
    IN SelectSeq(individual, FromAncestor)

cases_from_ancestors(individual, interested_ancestors) ==
    [a \in 1..Len(interested_ancestors) |-> cases_from_ancestor(individual, interested_ancestors[a])]

\* called with a valid index target
percent_cases_from_ancestors_at_specified_generation(results, target, interested_ancestors) ==
    LET sorted_ancestors == ListSort(interested_ancestors)
        targeted_population == PyIndex(results, target)
        n == Len(targeted_population[1])
        ancestory_cases_per_individual ==
            [i \in 1..Len(targeted_population) |->
                cases_from_ancestors(targeted_population[i], sorted_ancestors)]
    IN [i \in 1..Len(targeted_population) |->
          [a \in 1..Len(ancestory_cases_per_individual[i]) |->
              <<sorted_ancestors[a], Frac(Len(ancestory_cases_per_individual[i][a]), n)>>]]

\* the outcome of percent_cases_above_ancestor: a fraction, or Raised when
\* results[target_generation] raises IndexError
percent_cases_above_ancestor(results, target, ancestors) ==
    IF ~PyIndexOK(results, target) THEN Raised
    ELSE LET percents_from_ancestor_to_target ==
                 percent_cases_from_ancestors_at_specified_generation(
                     results, target, PyRange(ancestors, target + 1))
             percentages_in_nontarget_ancestory_range ==
                 [a \in 1..Len(percents_from_ancestor_to_target[1]) |->
                     [i \in 1..Len(percents_from_ancestor_to_target) |->
                         percents_from_ancestor_to_target[i][a][2]]]
             average_ancestor_chance ==
                 [a \in 1..Len(percentages_in_nontarget_ancestory_range) |->
                     FDivInt(FSum(percentages_in_nontarget_ancestory_range[a]),
                             Len(percentages_in_nontarget_ancestory_range[a]))]
         IN FSub(Frac(1, 1), FSum(average_ancestor_chance))

----------------------------------------------------------------------------
(* simualte_evolution, followed by percent_cases_above_ancestor *)

\* the number of random draws of a run that gave MAX_ERROR: a case of
\* history[g + 1] was drawn in generation g when its origin tag is g
HighDraws(history) ==
    Cardinality({s \in (1..Len(history)) \X (1..Len(history[1])) \X (1..Len(history[1][1])) :
                    history[s[1]][s[2]][s[3]] = <<s[1] - 1, MAX_ERROR>>})

\* the variables of the functions called on their own, when not in use
NoCall ==
    /\ population = << >>
    /\ rate = None
    /\ cases_to_replace = << >>
    /\ candidates = {}
    /\ ret = None

\* the variables of simualte_evolution, when not in use
NoEvolution ==
    /\ num_generations = None
    /\ pop_size = None
    /\ num_cases = None
    /\ downsample_rate = None
    /\ populations_of_generations = << >>
    /\ samples = << >>
    /\ target_generation = None
    /\ targeted_ancestors = None
    /\ result = None

\* simualte_evolution after generate_initial_population; the random draws
\* of a run give MAX_ERROR at most once
InitEvolution ==
    /\ pc = "loop"
    /\ num_generations \in 0..MaxGen
    /\ pop_size \in SmallestPopSizes
    /\ num_cases \in CaseCounts
    /\ downsample_rate \in ValidRates
    /\ \E first \in generate_initial_population(pop_size, num_cases, 1) :
          populations_of_generations = <<first>>
    /\ samples = << >>
    /\ target_generation = None
    /\ targeted_ancestors = None
    /\ result = None
    /\ NoCall

\* one iteration of the loop: simulate_one_generation on the last population
simulate_one_generation ==
    /\ pc = "loop"
    /\ Len(populations_of_generations) - 1 < num_generations
    /\ LET last == populations_of_generations[Len(populations_of_generations)]
       IN \E replace \in downsample(last, downsample_rate) :
             /\ replace # Raised
             /\ \E new_population \in
                      select_and_vary(last, replace,
                                      IF HighDraws(populations_of_generations) = 0 THEN 1 ELSE 0) :
                   populations_of_generations' = Append(populations_of_generations, new_population)
             /\ samples' = Append(samples, replace)
    /\ UNCHANGED <<pc, num_generations, pop_size, num_cases, downsample_rate, target_generation,
                   targeted_ancestors, result, population, rate, cases_to_replace, candidates, ret>>

\* the loop is over: the history is returned
simualte_evolution_return ==
    /\ pc = "loop"
    /\ Len(populations_of_generations) - 1 = num_generations
    /\ pc' = "returned"
    /\ UNCHANGED <<evoVars, population, rate, cases_to_replace, candidates, ret>>

\* the indices tried: valid and invalid ones
IndexArgs == (-1)..(MaxGen + 1)

\* percent_cases_above_ancestor called on the returned history
call_percent_cases_above_ancestor ==
    /\ pc = "returned"
    /\ \E t \in IndexArgs, a \in IndexArgs :
          /\ target_generation' = t
          /\ targeted_ancestors' = a
          /\ result' = percent_cases_above_ancestor(populations_of_generations, t, a)
    /\ pc' = "analysed"
    /\ UNCHANGED <<num_generations, pop_size, num_cases, downsample_rate,
                   populations_of_generations, samples,
                   population, rate, cases_to_replace, candidates, ret>>

NextEvolution ==
    \/ simulate_one_generation
    \/ simualte_evolution_return
    \/ call_percent_cases_above_ancestor

SpecEvolution == InitEvolution /\ [][NextEvolution]_vars

----------------------------------------------------------------------------
(* downsample called on its own *)

InitDownsample ==
    /\ pc = "call"
    /\ population \in UNION {generate_initial_population(p, n, 1) : p \in PopSizes, n \in CaseCounts}
    /\ rate \in AnyRates
    /\ cases_to_replace = << >>
    /\ candidates = {}
    /\ ret = None
    /\ NoEvolution

call_downsample ==
    /\ pc = "call"
    /\ ret' \in downsample(population, rate)
    /\ pc' = "done"
    /\ UNCHANGED <<evoVars, population, rate, cases_to_replace, candidates>>

SpecDownsample == InitDownsample /\ [][call_downsample]_vars

----------------------------------------------------------------------------
(* tournament_selection called on its own *)

\* populations with known sums: the total errors climb in steps along the
\* population, starting anywhere, and wrap around after m steps
LadderPopulations(p, n) ==
    {[i \in 1..p |-> [c \in 1..n |-> <<0, ((i + shift) % m) * (MAX_ERROR \div p)>>]] :
        shift \in 0..(p - 1), m \in 1..p}

TournamentPopulations ==
    UNION {generate_initial_population(p, n, MaxHigh) \cup LadderPopulations(p, n) :
              p \in PopSizes, n \in CaseCounts}

InitTournament ==
    /\ pc = "call"
    /\ population \in TournamentPopulations
    /\ rate = None
    /\ cases_to_replace = << >>
    /\ candidates = {}
    /\ ret = None
    /\ NoEvolution

call_tournament_selection ==
    /\ pc = "call"
    /\ \E S \in TournamentCandidates(population) :
          /\ candidates' = S
          /\ \E w \in TournamentWinners(population, S) : ret' = population[w]
    /\ pc' = "done"
    /\ UNCHANGED <<evoVars, population, rate, cases_to_replace>>

SpecTournament == InitTournament /\ [][call_tournament_selection]_vars

----------------------------------------------------------------------------
(* select_and_vary called on its own *)

\* populations that need not come from simualte_evolution: one individual
\* carries the origin tag t1 on all its cases, the others the tag t0
TaggedPopulations(p, n) ==
    {[i \in 1..p |-> [c \in 1..n |-> <<IF i = odd THEN t1 ELSE t0, first[i][c][2]>>]] :
        first \in generate_initial_population(p, n, 1),
        odd \in 1..p, t0 \in 0..MaxTag, t1 \in 0..MaxTag}

InitSelect ==
    /\ pc = "call"
    /\ population \in UNION {TaggedPopulations(p, n) : p \in SmallestPopSizes, n \in CaseCounts}
    /\ cases_to_replace \in {SetToSortedSeq(R) : R \in SUBSET (0..(Len(population[1]) - 1))}
    /\ rate = None
    /\ candidates = {}
    /\ ret = None
    /\ NoEvolution

call_select_and_vary ==
    /\ pc = "call"
    /\ ret' \in select_and_vary(population, cases_to_replace, 1)
    /\ pc' = "done"
    /\ UNCHANGED <<evoVars, population, rate, cases_to_replace, candidates>>

\* select_and_vary called on its own, or by the loop of simualte_evolution
InitSelectOrEvolution == InitSelect \/ InitEvolution

NextSelect == call_select_and_vary \/ simulate_one_generation

SpecSelect == InitSelectOrEvolution /\ [][NextSelect]_vars

----------------------------------------------------------------------------
(* The claims.  Their vocabulary is defined here, apart from the model. *)

\* the history has been returned by simualte_evolution
Returned == pc \in {"returned", "analysed"}

\* the origin tags of an individual
OriginTags(individual) == {individual[c][1] : c \in 1..Len(individual)}

\* the sum of the error values of an individual
ErrorSum(individual) == SumSeq([c \in 1..Len(individual) |-> individual[c][2]])

\* a fraction lies in [0, 1]
InUnitInterval(f) == 0 <= f[1] /\ f[1] <= f[2]

\* a list of integers is strictly ascending
StrictlyAscending(s) == \A i \in 1..(Len(s) - 1) : s[i] < s[i + 1]

\* the largest generation j in 1..g whose downsampled cases contained case
\* id c, or 0 when there is none
LastSampled(g, c) == SetMax({j \in 1..g : c \in Range(samples[j])} \cup {0})

\* the number of cases of a population with an origin older than ancestor
CasesOlderThan(pop, ancestor) ==
    Cardinality({s \in (1..Len(pop)) \X (1..Len(pop[1])) : pop[s[1]][s[2]][1] < ancestor})

\* C1: in a history returned by simualte_evolution, every individual of
\* every generation g has exactly num_cases cases, and the origin_generation
\* of each of its cases lies in [0, g].
C1_CasesAndOrigins ==
    Returned =>
        /\ Len(populations_of_generations) = num_generations + 1
        /\ \A g \in 0..num_generations :
              \A i \in 1..Len(populations_of_generations[g + 1]) :
                 /\ Len(populations_of_generations[g + 1][i]) = num_cases
                 /\ OriginTags(populations_of_generations[g + 1][i]) \subseteq 0..g

\* a returned history whose last population carries cases of two different
\* generations after the first
C1_Witness ==
    /\ pc = "returned"
    /\ num_generations >= 2
    /\ \E i \in 1..pop_size :
          {num_generations, num_generations - 1}
              \subseteq OriginTags(populations_of_generations[num_generations + 1][i])

\* C2 as stated: percent_cases_above_ancestor(history, g, g), for g in
\* 1..num_generations, returns floor(rate * num_cases) / num_cases.
C2_ReturnsDownsampleRate ==
    (/\ pc = "analysed"
     /\ target_generation = targeted_ancestors
     /\ target_generation \in 1..num_generations)
    => /\ result # Raised
       /\ FEq(result, <<FloorOfProduct(downsample_rate, num_cases), num_cases>>)

C4_DownsampleResult ==
    (pc = "done" /\ 0 <= rate[1] /\ rate[1] <= rate[2])
    => /\ ret # Raised
       /\ Len(ret) = FloorOfProduct(rate, Len(population[1]))
       /\ StrictlyAscending(ret)
       /\ Range(ret) \subseteq 0..(Len(population[1]) - 1)

\* downsample returned several case ids for a rate in [0, 1]
C4_Witness ==
    /\ pc = "done"
    /\ 0 <= rate[1]
    /\ rate[1] <= rate[2]
    /\ ret # Raised
    /\ Len(ret) >= 2

\* C5: tournament_selection returns a member of the sampled subset of
\* TOURNAMENT_SIZE distinct individuals whose summed error_value is at least
\* that of every other member of the subset.
C5_TournamentMaximum ==
    pc = "done"
    => /\ candidates \subseteq 1..Len(population)
       /\ Cardinality(candidates) = TOURNAMENT_SIZE
       /\ \E w \in candidates : population[w] = ret
       /\ \A o \in candidates : ErrorSum(population[o]) <= ErrorSum(ret)

\* a tournament that beat a candidate of smaller sum while an individual of
\* larger sum stayed outside the sample
C5_Witness ==
    /\ pc = "done"
    /\ \E o \in candidates : ErrorSum(population[o]) < ErrorSum(ret)
    /\ \E x \in (1..Len(population)) \ candidates : ErrorSum(population[x]) > ErrorSum(ret)

\* C6 as stated: the generation tag written on every replaced case equals
\* one plus the maximum origin_generation over all cases of all individuals
\* of the parent population.
C6_AgeAboveWholePopulation ==
    pc = "done"
    => \A i \in 1..Len(ret) : \A c \in 1..Len(ret[i]) :
          (c - 1) \in Range(cases_to_replace)
          => ret[i][c][1] =
                1 + SetMax(UNION {OriginTags(population[j]) : j \in 1..Len(population)})

\* C7 as stated: downsample raises for every rate below 0 and every rate
\* above 1.
C7_RaisesOutsideUnitInterval ==
    (pc = "done" /\ (rate[1] < 0 \/ rate[1] > rate[2])) => ret = Raised

\* C8 as stated: percent_cases_above_ancestor raises whenever
\* target_generation is no index in 0..len(history)-1 or targeted_ancestor
\* lies outside 0..target_generation.
C8_RaisesOnInvalidIndices ==
    (/\ pc = "analysed"
     /\ \/ target_generation \notin 0..(Len(populations_of_generations) - 1)
        \/ targeted_ancestors \notin 0..target_generation)
    => result = Raised

\* the population R is one that the claim allows select_and_vary to return
\* for the parents P and the case ids of replace
ChildrenOf(P, replace, R) ==
    /\ Len(R) = Len(P)
    /\ \A i \in 1..Len(R) :
          \E j \in 1..Len(P) :
             /\ Len(R[i]) = Len(P[j])
             /\ \A c \in 1..Len(R[i]) :
                   IF (c - 1) \in Range(replace)
                   THEN /\ R[i][c][1] = 1 + SetMax(OriginTags(P[1]))
                        /\ R[i][c][2] \in 0..MAX_ERROR
                   ELSE R[i][c] = P[j][c]

\* C9: select_and_vary returns as many individuals as it was given; each
\* child has a parent in the argument whose case it carries at every case
\* id not in cases_to_replace, and at every case id in cases_to_replace it
\* carries (new_age, v) with v in [0, 9999]; the argument and the earlier
\* populations of the history are left unchanged.
C9_ChildrenOfParents ==
    [][/\ (pc = "call" /\ pc' = "done")
          => /\ population' = population
             /\ ChildrenOf(population, cases_to_replace, ret')
       /\ Len(populations_of_generations') > Len(populations_of_generations)
          => /\ SubSeq(populations_of_generations', 1, Len(populations_of_generations))
                   = populations_of_generations
             /\ ChildrenOf(populations_of_generations[Len(populations_of_generations)],
                           samples'[Len(samples')],
                           populations_of_generations'[Len(populations_of_generations')])]_vars

\* a child that inherited a case of error MAX_ERROR and of an origin tag no
\* other individual carries, next to a replaced case
C9_Witness ==
    /\ pc = "done"
    /\ cases_to_replace # << >>
    /\ \E i \in 1..Len(ret) : \E c \in 1..Len(ret[i]) :
          /\ (c - 1) \notin Range(cases_to_replace)
          /\ ret[i][c][2] = MAX_ERROR
          /\ \E j \in 1..Len(population) : population[j][c][1] # ret[i][c][1]

\* C10: at every generation g of the history and every case id c, all
\* individuals carry the same origin tag at c: the last generation whose
\* downsampled cases contained c, or 0; so all individuals share the same
\* maximum origin tag, g when floor(rate * num_cases) >= 1 and 0 otherwise.
C10_LockstepOrigins ==
    \A g \in 0..(Len(populations_of_generations) - 1) :
       \A i \in 1..Len(populations_of_generations[g + 1]) :
          /\ \A c \in 0..(num_cases - 1) :
                populations_of_generations[g + 1][i][c + 1][1] = LastSampled(g, c)
          /\ SetMax(OriginTags(populations_of_generations[g + 1][i])) =
                IF FloorOfProduct(downsample_rate, num_cases) >= 1 THEN g ELSE 0

\* a history in which a case was last replaced in a generation before the
\* latest one while another case was replaced in the latest one
C10_Witness ==
    /\ Len(populations_of_generations) >= 3
    /\ \E c \in 0..(num_cases - 1), d \in 0..(num_cases - 1) :
          /\ LastSampled(Len(populations_of_generations) - 1, c) = Len(populations_of_generations) - 2
          /\ LastSampled(Len(populations_of_generations) - 1, d) = Len(populations_of_generations) - 1

====
